---- MODULE Spec2Model ----
(***************************************************************************)
(* Model of the retrieval-augmented answer engine of the repository        *)
(* (src/app/knowledge/rag_advanced.py, class EnhancedRAGSystem).           *)
(*                                                                         *)
(* Texts are abstracted to natural numbers (a text id); a string that the  *)
(* code only measures is abstracted to its character length.  Floating     *)
(* point scores are exact rationals: a score is an integer number of       *)
(* hundredths, a confidence an integer numerator over ConfDen.             *)
(***************************************************************************)
EXTENDS Integers, Sequences, FiniteSets, TLC

VARIABLES
    knowledge_base,      \* risk_knowledge.jsonl: the kind of each line, in
                         \* file order
    embedding_model,     \* self.embedding_model: FALSE is None, TRUE is loaded
    vector_store,        \* self.vector_store: [exists, items]; ~exists is None
    documents,           \* self.documents: sequence of page_content text ids
    doc_metadata,        \* the metadata dict of each Document of
                         \* self.documents: "original" as built, "changed"
                         \* once somebody wrote into the dict
    document_embeddings, \* self.document_embeddings: [exists, items]
    is_initialized,      \* self.is_initialized
    documents_cache,     \* the file documents_cache.json: [exists, data]
    embeddings_cache,    \* the file embeddings_cache.npy: [exists, data]
    last_call,           \* what the last initialize / add_document returned
    added_ok,            \* texts whose add_document returned True since the
                         \* cache files were last cleared
    trail,               \* history: what the last two successful initialize
                         \* calls left, and whether clear_cache came between
    pc,                  \* position of the caller of generate_answer or
                         \* of search
    query,               \* the inputs of one generate_answer or search call
    response,            \* what the call handed to its caller
    tasks,               \* the coroutines on the event loop: what each was
                         \* called for, where it stands, what it returned
    blocked,             \* the task that holds the loop's thread inside a
                         \* blocking call (0: the thread is free)
    users,               \* table users: rows [id, telegram_id, username]
    user_answers,        \* table user_answers: rows in insertion order
    user_progress,       \* table user_progress: rows keyed by user and lesson
    active_sessions,     \* EnhancedLearningSystem.active_sessions
    current_test,        \* context.user_data['current_test'] of one chat
    returned             \* what the last call of a learning function
                         \* handed back

vars == << knowledge_base, embedding_model, vector_store, documents,
           doc_metadata, document_embeddings, is_initialized, documents_cache,
           embeddings_cache, last_call, added_ok, trail, pc, query,
           response, tasks, blocked, users, user_answers, user_progress,
           active_sessions, current_test, returned >>

engine_vars == << knowledge_base, embedding_model, vector_store, documents,
                  doc_metadata, document_embeddings, is_initialized, documents_cache,
                  embeddings_cache, last_call, added_ok, trail >>

answer_vars == << pc, query, response >>

loop_vars == << tasks, blocked >>

learn_vars == << users, user_answers, user_progress, active_sessions,
                 current_test, returned >>

(***************************************************************************)
(* Bounds of the model.                                                    *)
(***************************************************************************)
MaxRecords == 2      \* lines in the knowledge base file
MaxAdded == 1        \* distinct texts an administrative flow may add
MaxDocs == 5         \* cap on len(self.documents) and on the index size
MaxLifecycleDocs == 4  \* the same cap where initialize, clear_cache and
                       \* restart run between the additions
MaxResults == 4      \* cap on the number of results search hands back

(***************************************************************************)
(* Helpers on sequences.                                                   *)
(***************************************************************************)
Range(s) == { s[i] : i \in 1..Len(s) }

Min(a, b) == IF a <= b THEN a ELSE b

RECURSIVE SumSeq(_)
SumSeq(s) == IF s = << >> THEN 0 ELSE Head(s) + SumSeq(Tail(s))

(***************************************************************************)
(* Values.                                                                 *)
(***************************************************************************)
Absent == [exists |-> FALSE, items |-> << >>]

Present(s) == [exists |-> TRUE, items |-> s]

\* What a line of the knowledge base file can be: a well-formed record, a
\* line json.loads rejects (json.JSONDecodeError), or valid JSON that lacks
\* the 'prompt' key (item['prompt'] raises KeyError).
RecordKinds == { "record", "bad_json", "no_prompt" }

\* The three documents derived from the record on line r: the combined
\* question/answer pair, the question alone, the answer alone (each below the
\* chunk size, so the splitter leaves it whole).
DeriveDocuments(r) == << 3 * r - 2, 3 * r - 1, 3 * r >>

\* The loop of _process_knowledge_base from line line_num on, `docs` being
\* the local list so far: [raised, documents].  Only json.JSONDecodeError is
\* caught inside the loop; any other exception leaves the function.
RECURSIVE ProcessLines(_, _, _)
ProcessLines(kb, line_num, docs) ==
    IF line_num > Len(kb) THEN [raised |-> FALSE, documents |-> docs]
    ELSE CASE kb[line_num] = "record" ->
                ProcessLines(kb, line_num + 1,
                             docs \o DeriveDocuments(line_num))
           [] kb[line_num] = "bad_json" ->
                ProcessLines(kb, line_num + 1, docs)
           [] kb[line_num] = "no_prompt" ->
                [raised |-> TRUE, documents |-> docs]

\* _process_knowledge_base: every line in file order, then derivation order.
\* self.documents is assigned only when the loop ran to its end.
ProcessKnowledgeBase(kb) == ProcessLines(kb, 1, << >>)

\* len(page_content) of a text: corpus texts are short; of the texts an
\* administrative flow adds, every other one is longer than a chunk.
TextLen(text) ==
    IF text <= 3 * MaxRecords THEN 100 + text
    ELSE IF (text - 3 * MaxRecords) % 2 = 1 THEN 600 ELSE 300

\* Texts that add_document may be given: new texts, not in the corpus.
AddedTexts == { 3 * MaxRecords + k : k \in 1..MaxAdded }

\* A query text that has nothing to do with any document.
UnrelatedText == 0

\* SentenceTransformer.encode on one text: a deterministic raw vector.  The
\* provider is a black box; two texts may share a direction, and the
\* unrelated text points away from all of them.
Encode(text) ==
    [dir |-> IF text = UnrelatedText THEN 5 ELSE text % 4, normalized |-> FALSE]

\* faiss.normalize_L2 on one row.
NormalizeL2(v) == [v EXCEPT !.normalized = TRUE]

\* The batched encode of _create_vector_index: one raw row per document.
EncodeAll(docs) == [i \in 1..Len(docs) |-> Encode(docs[i])]

\* faiss.normalize_L2 on a whole array (in place in the code).
NormalizeAll(rows) == [i \in 1..Len(rows) |-> NormalizeL2(rows[i])]

\* The inner product of two L2-normalized vectors, in hundredths: the cosine
\* of the angle between their directions (directions are 45 degrees apart).
InnerProduct(u, v) ==
    LET d == IF u.dir >= v.dir THEN u.dir - v.dir ELSE v.dir - u.dir
    IN  CASE d = 0 -> 100 [] d = 1 -> 71 [] d = 2 -> 0 [] d = 3 -> -71
          [] d = 4 -> -100 [] d = 5 -> -71

\* IndexFlatIP.search: the positions of `rows` by descending inner product
\* with qv, equal scores in insertion order; `left` are the positions not
\* yet handed out.
RECURSIVE RankPositions(_, _, _)
RankPositions(rows, qv, left) ==
    IF left = {} THEN << >>
    ELSE LET best == CHOOSE p \in left : \A o \in left :
                        \/ InnerProduct(qv, rows[p]) > InnerProduct(qv, rows[o])
                        \/ /\ InnerProduct(qv, rows[p]) = InnerProduct(qv, rows[o])
                           /\ p <= o
         IN  << best >> \o RankPositions(rows, qv, left \ {best})

\* The loop of search over the top_k hits: the hits at or above the
\* threshold, in rank order, as [content, score] with the position they
\* came from.
RECURSIVE KeepHits(_, _, _, _)
KeepHits(rows, qv, hits, score_threshold) ==
    IF hits = << >> THEN << >>
    ELSE LET score == InnerProduct(qv, rows[Head(hits)])
             rest == KeepHits(rows, qv, Tail(hits), score_threshold)
         IN  IF score >= score_threshold
             THEN << [pos |-> Head(hits), score |-> score] >> \o rest
             ELSE rest

\* search(query, top_k, score_threshold) on an engine in the given state: the
\* list of [content, score] it returns; pos is the position of the Document
\* the result was built from.  Any exception inside (no model, no
\* index, a hit whose position has no document) is caught and gives [].
SearchOn(initialized, model, store, docs, text, top_k, score_threshold) ==
    IF ~initialized \/ ~model \/ ~store.exists THEN << >>
    ELSE LET qv == NormalizeL2(Encode(text))
             ranked == RankPositions(store.items, qv, 1..Len(store.items))
             hits == SubSeq(ranked, 1, Min(top_k, Len(ranked)))
             kept == KeepHits(store.items, qv, hits, score_threshold)
         IN  IF \E i \in 1..Len(kept) : kept[i].pos > Len(docs)
             THEN << >>
             ELSE [i \in 1..Len(kept) |->
                      [content |-> docs[kept[i].pos], score |-> kept[i].score,
                       pos |-> kept[i].pos]]

DefaultTopK == 5           \* top_k of search when the caller gives none

\* The texts callers ask about: a corpus text, a text that may be added and
\* the unrelated text.
QueryTexts == { 1, 3 * MaxRecords + 1, UnrelatedText }

Search(text, top_k, score_threshold) ==
    SearchOn(is_initialized, embedding_model, vector_store, documents,
             text, top_k, score_threshold)

\* What a successful initialize left: memory, cache files, and whether the
\* cache files held only what the corpus gives (no add_document since the
\* last clear_cache).
Snapshot(docs, emb, store, dcache, ecache, corpus_only) ==
    [exists |-> TRUE, documents |-> docs, document_embeddings |-> emb,
     vector_store |-> store, documents_cache |-> dcache,
     embeddings_cache |-> ecache, corpus_only |-> corpus_only]

NoSnapshot ==
    [exists |-> FALSE, documents |-> << >>, document_embeddings |-> Absent,
     vector_store |-> Absent, documents_cache |-> Absent,
     embeddings_cache |-> Absent, corpus_only |-> FALSE]

\* stage: "initialized" after a successful initialize, "cleared" when
\* clear_cache followed it, "rebuilt" when a successful initialize followed
\* that; "none" otherwise.  snap is what the last successful initialize
\* left, forgotten once an add_document or a failed initialize may have
\* changed the cache files; before is what the one before it left, kept
\* only in the state the later initialize produced.
NoTrail == [stage |-> "none", snap |-> NoSnapshot, before |-> NoSnapshot]

NoCall == [op |-> "none", ok |-> FALSE, fail |-> "-", docs_from |-> "-",
           emb_from |-> "-"]

(***************************************************************************)
(* EnhancedRAGSystem.__init__ and the files a fresh deployment finds.      *)
(***************************************************************************)
FreshEngine(kb) ==
    /\ knowledge_base = kb
    /\ embedding_model = FALSE
    /\ vector_store = Absent
    /\ documents = << >>
    /\ doc_metadata = << >>
    /\ document_embeddings = Absent
    /\ is_initialized = FALSE
    /\ documents_cache = Absent
    /\ embeddings_cache = Absent
    /\ last_call = NoCall
    /\ added_ok = {}
    /\ trail = NoTrail

EngineInit ==
    \E n \in 0..MaxRecords : \E kb \in [1..n -> RecordKinds] : FreshEngine(kb)

(***************************************************************************)
(* initialize.  `fail` names the one step of this run that raises          *)
(* ("none": no step does).  A step can only fail if the run reaches it.    *)
(***************************************************************************)
InitFailures == { "none", "model", "documents_read", "documents_write",
                  "embeddings_read", "encode", "embeddings_write" }

\* _load_documents: [ok, documents, documents_cache, from, loaded]; loaded
\* tells whether self.documents was assigned a list of new Document objects.
LoadDocuments(fail) ==
    IF documents_cache.exists
    THEN IF fail = "documents_read"
         THEN [ok |-> FALSE, documents |-> documents, loaded |-> FALSE,
               documents_cache |-> documents_cache, from |-> "cache"]
         ELSE [ok |-> TRUE, documents |-> documents_cache.items,
               loaded |-> TRUE,
               documents_cache |-> documents_cache, from |-> "cache"]
    ELSE LET p == ProcessKnowledgeBase(knowledge_base)
             docs == p.documents
         IN  IF p.raised
             THEN [ok |-> FALSE, documents |-> documents, loaded |-> FALSE,
                   documents_cache |-> documents_cache, from |-> "corpus"]
             ELSE IF fail = "documents_write"
                  THEN [ok |-> FALSE, documents |-> docs, loaded |-> TRUE,
                        documents_cache |-> documents_cache, from |-> "corpus"]
                  ELSE [ok |-> TRUE, documents |-> docs, loaded |-> TRUE,
                        documents_cache |-> Present(docs), from |-> "corpus"]

\* A variant of _create_vector_index that adds the rows to the index it
\* already has instead of creating a new one.
CreateVectorIndexOntoOldIndex(docs, fail) ==
    LET failed(emb, from) ==
            [ok |-> FALSE, document_embeddings |-> emb,
             embeddings_cache |-> embeddings_cache,
             vector_store |-> vector_store, from |-> from]
        built(rows, cache, from) ==
            [ok |-> TRUE, document_embeddings |-> Present(NormalizeAll(rows)),
             embeddings_cache |-> cache,
             vector_store |-> Present(vector_store.items \o NormalizeAll(rows)),
             from |-> from]
    IN  IF embeddings_cache.exists
        THEN IF fail = "embeddings_read"
             THEN failed(document_embeddings, "cache")
             ELSE built(embeddings_cache.items, embeddings_cache, "cache")
        ELSE IF fail = "encode" \/ docs = << >>
             THEN failed(document_embeddings, "computed")
             ELSE IF fail = "embeddings_write"
                  THEN failed(Present(EncodeAll(docs)), "computed")
                  ELSE built(EncodeAll(docs), Present(EncodeAll(docs)), "computed")

\* _create_vector_index on the documents `docs` that _load_documents left:
\* [ok, document_embeddings, embeddings_cache, vector_store, from]
CreateVectorIndex(docs, fail) ==
    LET failed(emb, from) ==
            [ok |-> FALSE, document_embeddings |-> emb,
             embeddings_cache |-> embeddings_cache,
             vector_store |-> vector_store, from |-> from]
        built(rows, cache, from) ==
            [ok |-> TRUE, document_embeddings |-> Present(NormalizeAll(rows)),
             embeddings_cache |-> cache,
             vector_store |-> Present(NormalizeAll(rows)), from |-> from]
    IN  IF embeddings_cache.exists
        THEN IF fail = "embeddings_read"
             THEN failed(document_embeddings, "cache")
             ELSE built(embeddings_cache.items, embeddings_cache, "cache")
        ELSE IF fail = "encode" \/ docs = << >>
             \* encode raises, or np.vstack([]) raises on an empty corpus
             THEN failed(document_embeddings, "computed")
             ELSE IF fail = "embeddings_write"
                  THEN failed(Present(EncodeAll(docs)), "computed")
                  ELSE built(EncodeAll(docs), Present(EncodeAll(docs)), "computed")

\* Whether this run of initialize reaches the step `fail` names.
FailureReached(fail) ==
    LET d == LoadDocuments("none")
    IN  CASE fail \in {"none", "model"} -> TRUE
          [] fail = "documents_read" -> documents_cache.exists
          [] fail = "documents_write" ->
                /\ ~documents_cache.exists
                /\ ~ProcessKnowledgeBase(knowledge_base).raised
          [] fail = "embeddings_read" -> d.ok /\ embeddings_cache.exists
          [] fail \in {"encode", "embeddings_write"} ->
                d.ok /\ ~embeddings_cache.exists /\ d.documents # << >>

Initialize(fail) ==
    /\ FailureReached(fail)
    /\ UNCHANGED << knowledge_base, added_ok, answer_vars >>
    /\ IF fail = "model"
       THEN /\ last_call' = [op |-> "initialize", ok |-> FALSE,
                             fail |-> fail, docs_from |-> "-",
                             emb_from |-> "-"]
            /\ UNCHANGED << embedding_model, vector_store, documents,
                            doc_metadata, document_embeddings, is_initialized,
                            documents_cache, embeddings_cache >>
       ELSE LET d == LoadDocuments(fail)
            IN  /\ embedding_model' = TRUE
                /\ documents' = d.documents
                /\ doc_metadata' =
                       IF d.loaded
                       THEN [i \in 1..Len(d.documents) |-> "original"]
                       ELSE doc_metadata
                /\ documents_cache' = d.documents_cache
                /\ IF ~d.ok
                   THEN /\ last_call' = [op |-> "initialize", ok |-> FALSE,
                                         fail |-> fail, docs_from |-> d.from,
                                         emb_from |-> "-"]
                        /\ UNCHANGED << vector_store, document_embeddings,
                                        is_initialized, embeddings_cache >>
                   ELSE LET x == CreateVectorIndex(d.documents, fail)
                        IN  /\ document_embeddings' = x.document_embeddings
                            /\ embeddings_cache' = x.embeddings_cache
                            /\ vector_store' = x.vector_store
                            /\ is_initialized' = (x.ok \/ is_initialized)
                            /\ last_call' = [op |-> "initialize", ok |-> x.ok,
                                             fail |-> fail,
                                             docs_from |-> d.from,
                                             emb_from |-> x.from]
    /\ trail' = IF last_call'.ok
                THEN [stage |-> IF trail.stage = "cleared"
                                THEN "rebuilt" ELSE "initialized",
                      snap |-> Snapshot(documents', document_embeddings',
                                        vector_store', documents_cache',
                                        embeddings_cache', added_ok = {}),
                      before |-> trail.snap]
                ELSE NoTrail

(***************************************************************************)
(* add_document(content, metadata).  `fail` names the step that raises:    *)
(* the encode of the new text, or the np.save of the embeddings cache.     *)
(* The document is appended before anything that can raise.                *)
(***************************************************************************)
AddFailures == { "none", "encode", "save" }

\* [ok, vector_store, document_embeddings, embeddings_cache]
AddDocumentResult(content, fail) ==
    LET row == NormalizeL2(Encode(content))
        unchanged == [ok |-> FALSE, vector_store |-> vector_store,
                      document_embeddings |-> document_embeddings,
                      embeddings_cache |-> embeddings_cache]
        store == Present(Append(vector_store.items, row))
        emb == Present(Append(document_embeddings.items, row))
    IN  IF ~embedding_model \/ fail = "encode" \/ ~vector_store.exists
        THEN unchanged
        ELSE IF ~document_embeddings.exists
             THEN [unchanged EXCEPT !.ok = TRUE, !.vector_store = store]
             ELSE IF fail = "save"
                  THEN [unchanged EXCEPT !.vector_store = store,
                                         !.document_embeddings = emb]
                  ELSE [ok |-> TRUE, vector_store |-> store,
                        document_embeddings |-> emb, embeddings_cache |-> emb]

AddDocument(content, fail) ==
    /\ Len(documents) < MaxDocs
    /\ Len(vector_store.items) < MaxDocs
    /\ fail \in {"encode", "save"} => embedding_model
    /\ fail = "save" => vector_store.exists /\ document_embeddings.exists
    /\ LET r == AddDocumentResult(content, fail)
       IN  /\ documents' = Append(documents, content)
           /\ doc_metadata' = Append(doc_metadata, "original")
           /\ vector_store' = r.vector_store
           /\ document_embeddings' = r.document_embeddings
           /\ embeddings_cache' = r.embeddings_cache
           /\ last_call' = [op |-> "add_document", ok |-> r.ok,
                            fail |-> fail, docs_from |-> "-",
                            emb_from |-> "-"]
           /\ added_ok' = IF r.ok THEN added_ok \cup {content} ELSE added_ok
           /\ trail' = IF r.ok THEN NoTrail
                       ELSE [trail EXCEPT !.stage = "none",
                                          !.before = NoSnapshot]
    /\ UNCHANGED << knowledge_base, embedding_model, is_initialized,
                    documents_cache, answer_vars >>

(***************************************************************************)
(* clear_cache: unlink both cache files; the engine's memory is untouched. *)
(***************************************************************************)
\* A variant of clear_cache that unlinks the embeddings cache only.
ClearCacheEmbeddingsOnly ==
    /\ embeddings_cache' = Absent
    /\ added_ok' = {}
    /\ trail' = [trail EXCEPT !.stage = IF @ = "none" THEN "none"
                                        ELSE "cleared",
                              !.before = NoSnapshot]
    /\ UNCHANGED << knowledge_base, embedding_model, vector_store, documents,
                    doc_metadata, document_embeddings, is_initialized,
                    last_call, documents_cache, answer_vars >>

ClearCache ==
    /\ embeddings_cache' = Absent
    /\ documents_cache' = Absent
    /\ added_ok' = {}
    /\ trail' = [trail EXCEPT !.stage = IF @ = "none" THEN "none"
                                        ELSE "cleared",
                              !.before = NoSnapshot]
    /\ UNCHANGED << knowledge_base, embedding_model, vector_store, documents,
                    doc_metadata, document_embeddings, is_initialized,
                    last_call, answer_vars >>

(***************************************************************************)
(* A process restart: the module-level rag_system is constructed anew, the *)
(* files stay.                                                             *)
(***************************************************************************)
Restart ==
    /\ last_call.op # "none"
    /\ embedding_model' = FALSE
    /\ vector_store' = Absent
    /\ documents' = << >>
    /\ doc_metadata' = << >>
    /\ document_embeddings' = Absent
    /\ is_initialized' = FALSE
    /\ last_call' = NoCall
    /\ trail' = [trail EXCEPT !.stage = IF @ = "rebuilt" THEN "initialized"
                                        ELSE @,
                              !.before = NoSnapshot]
    /\ UNCHANGED << knowledge_base, documents_cache, embeddings_cache,
                    added_ok, answer_vars >>

(***************************************************************************)
(* generate_answer and what it calls.                                      *)
(*                                                                         *)
(* A SearchResult is [content_len, score]: the length of its content and   *)
(* its similarity in hundredths.  The context string is the sequence of    *)
(* the joined parts (context_used) and its character length (context_len). *)
(***************************************************************************)
SeparatorLen == 2          \* len("\n\n"), the separator of the join
TopScores == 3             \* search_results[:3]
ContextReference == 1000   \* len(context) / 1000
ScoreThreshold == 50       \* score_threshold: float = 0.5
DefaultContextLimit == 2000

\* Confidences are numerators over ConfDen (1.0 is ConfDen).
ConfDen == 6 * 10000

RAGResponse(answer, sources, confidence, parts, len) ==
    [kind |-> "return", answer |-> answer, sources |-> sources,
     confidence |-> confidence, context_used |-> parts, context_len |-> len]

NoAnswer == [kind |-> "none", answer |-> "", sources |-> << >>,
             confidence |-> 0, context_used |-> << >>, context_len |-> 0]

Raised == [NoAnswer EXCEPT !.kind = "raise"]

ContentLens(results) == [i \in 1..Len(results) |-> results[i].content_len]

Scores(results) == [i \in 1..Len(results) |-> results[i].score]

\* A packing loop that skips a result that does not fit and goes on to the
\* next (continue in place of break): best-fit instead of greedy-prefix.
RECURSIVE PackContextBestFit(_, _, _)
PackContextBestFit(results, context_length, context_limit) ==
    IF results = << >> THEN << >>
    ELSE IF context_length + Head(results).content_len <= context_limit
         THEN << Head(results) >> \o
              PackContextBestFit(Tail(results),
                                 context_length + Head(results).content_len,
                                 context_limit)
         ELSE PackContextBestFit(Tail(results), context_length, context_limit)

\* The packing loop of generate_answer: results in ranked order, each taken
\* while the running sum of content lengths stays within the limit; the
\* first that does not fit ends the loop (break).
RECURSIVE PackContext(_, _, _)
PackContext(results, context_length, context_limit) ==
    IF results = << >> THEN << >>
    ELSE IF context_length + Head(results).content_len <= context_limit
         THEN << Head(results) >> \o
              PackContext(Tail(results),
                          context_length + Head(results).content_len,
                          context_limit)
         ELSE << >>

\* len("\n\n".join(context_parts))
JoinedLength(parts) ==
    IF parts = << >> THEN 0
    ELSE SumSeq(parts) + SeparatorLen * (Len(parts) - 1)

\* What the Generation Client call comes to.
LlmOutcomes == { "ok", "empty", "non200", "timeout", "malformed" }

\* _generate_llm_response: the text it returns; it never raises.
GenerateLlmResponse(llm) ==
    CASE llm = "ok" -> "GENERATED"
      [] llm = "empty" -> ""
      [] llm = "non200" -> "LLM_UNAVAILABLE"
      [] llm \in {"timeout", "malformed"} -> "LLM_ERROR"

\* A confidence that averages the scores of all results, not of the top three.
CalculateConfidenceAllScores(search_results, context_len) ==
    IF search_results = << >> THEN 0
    ELSE LET avg_score == (SumSeq(Scores(search_results)) * 60)
                              \div (10 * Len(search_results))
             context_factor == Min(context_len, ContextReference)
         IN  Min(avg_score * 70 + context_factor * 18, ConfDen)

\* _calculate_confidence(search_results, context), context given by length.
CalculateConfidence(search_results, context_len) ==
    IF search_results = << >> THEN 0
    ELSE LET top_scores == Scores(SubSeq(search_results, 1,
                                         Min(TopScores, Len(search_results))))
             \* avg_score in units of 1/600
             avg_score == (SumSeq(top_scores) * 6) \div Len(top_scores)
             \* context_factor in units of 1/ContextReference
             context_factor == Min(context_len, ContextReference)
             confidence == avg_score * 70 + context_factor * 18
         IN  Min(confidence, ConfDen)

\* An except clause that lets the exception through to the caller.
AnswerExceptionReraised == Raised

\* The except clause of generate_answer.
AnswerExceptionHandler == RAGResponse("ANSWER_ERROR", << >>, 0, << >>, 0)

\* search as generate_answer sees it: the ranked results, or [] when search
\* caught an exception of its own.
SearchOutcome(q) == IF q.fault = "search" THEN << >> ELSE q.results

\* A variant of generate_answer that goes on to the generation service with
\* an empty result list.
GenerateAnswerWithoutResults(initialized, q) ==
    IF ~initialized
    THEN RAGResponse("NOT_INITIALIZED", << >>, 0, << >>, 0)
    ELSE LET search_results == SearchOutcome(q)
             used_sources == PackContext(search_results, 0, q.context_limit)
             context_parts == ContentLens(used_sources)
         IN  RAGResponse(GenerateLlmResponse(q.llm), used_sources,
                         CalculateConfidence(search_results,
                                             JoinedLength(context_parts)),
                         context_parts, JoinedLength(context_parts))

\* A variant of generate_answer without the test of is_initialized.
GenerateAnswerUnchecked(initialized, q) ==
    LET search_results == SearchOutcome(q)
        used_sources == PackContext(search_results, 0, q.context_limit)
        context_parts == ContentLens(used_sources)
    IN  IF search_results = << >>
        THEN RAGResponse("NO_INFORMATION", << >>, 0, << >>, 0)
        ELSE RAGResponse(GenerateLlmResponse(q.llm), used_sources,
                         CalculateConfidence(search_results,
                                             JoinedLength(context_parts)),
                         context_parts, JoinedLength(context_parts))

GenerateAnswer(initialized, q) ==
    IF ~initialized
    THEN RAGResponse("NOT_INITIALIZED", << >>, 0, << >>, 0)
    ELSE LET search_results == SearchOutcome(q)
             used_sources == PackContext(search_results, 0, q.context_limit)
             context_parts == ContentLens(used_sources)
         IN  IF search_results = << >>
             THEN RAGResponse("NO_INFORMATION", << >>, 0, << >>, 0)
             ELSE IF q.fault = "assemble"
                  THEN AnswerExceptionHandler
                  ELSE RAGResponse(GenerateLlmResponse(q.llm), used_sources,
                                   CalculateConfidence(search_results,
                                                       JoinedLength(context_parts)),
                                   context_parts, JoinedLength(context_parts))

NoQuery == [results |-> << >>, context_limit |-> 0, context |-> 0,
            llm |-> "ok", fault |-> "none"]

(***************************************************************************)
(* The coroutines of the event loop.  A task is one call of an engine      *)
(* method: pc is "idle" before the call, "ready" once the coroutine is     *)
(* scheduled, "loading_model" or "awaiting_llm" inside the call, "done"    *)
(* when it returned.                                                       *)
(***************************************************************************)
MaxTasks == 2        \* coroutines the event loop holds

Tasks == 1..MaxTasks

\* The engine's memory as one value.
Memory(model, store, docs, emb, initialized) ==
    [embedding_model |-> model, vector_store |-> store, documents |-> docs,
     document_embeddings |-> emb, is_initialized |-> initialized]

NoMemory == Memory(FALSE, Absent, << >>, Absent, FALSE)

\* What a call handed back: the SearchResult list, the RAGResponse, the
\* outside services it called, the memory it read and the memory each
\* initialize in flight had found when it began.
NoOut == [results |-> << >>, response |-> NoAnswer, calls |-> {},
          observed |-> NoMemory, in_flight |-> {}]

\* pre: the memory a mutation found when it began.
IdleTask == [op |-> "none", pc |-> "idle", text |-> 0, pre |-> NoMemory,
             out |-> NoOut]

LoopIdle ==
    /\ tasks = [t \in Tasks |-> IdleTask]
    /\ blocked = 0

\* Nothing returned yet.
NoReturn == [op |-> "none"]

\* context.user_data without the key 'current_test'.
NoTest == [exists |-> FALSE, lesson_id |-> 0, questions |-> << >>,
           current_question_index |-> 0, correct_answers |-> 0,
           total_questions |-> 0]

\* An empty database, no learning session, no quiz.
LearnIdle ==
    /\ users = << >>
    /\ user_answers = << >>
    /\ user_progress = {}
    /\ active_sessions = << >>
    /\ current_test = NoTest
    /\ returned = NoReturn

Init ==
    /\ EngineInit
    /\ LoopIdle
    /\ LearnIdle
    /\ pc = "idle"
    /\ query = NoQuery
    /\ response = NoAnswer

Next ==
    \/ \E fail \in InitFailures : Initialize(fail) /\ UNCHANGED << loop_vars, learn_vars >>
    \/ \E content \in AddedTexts, fail \in AddFailures :
          /\ Len(documents) < MaxLifecycleDocs
          /\ Len(vector_store.items) < MaxLifecycleDocs
          /\ AddDocument(content, fail)
          /\ UNCHANGED << loop_vars, learn_vars >>
    \/ ClearCache /\ UNCHANGED << loop_vars, learn_vars >>
    \/ Restart /\ UNCHANGED << loop_vars, learn_vars >>

Spec == Init /\ [][Next]_vars

(***************************************************************************)
(* One call of generate_answer on an engine that is either fresh or built, *)
(* for every ranked result list search can hand back.                      *)
(***************************************************************************)
AnswerScores == { 70, 80, 90 }

AnswerLens == { 1, 400, 1000 }

AnswerLimits == { 900, 1000, DefaultContextLimit }

AnswerFaults == { "none", "search", "assemble" }

\* search returns results by descending score, each at or above the threshold.
Ranked(results) ==
    /\ \A i \in 1..Len(results) : results[i].score >= ScoreThreshold
    /\ \A i \in 1..(Len(results) - 1) : results[i].score >= results[i + 1].score

ResultLists(scores, lens) ==
    UNION { [1..n -> [content_len : lens, score : scores]] : n \in 0..MaxResults }

RankedLists == { r \in ResultLists(AnswerScores, AnswerLens) : Ranked(r) }

BuiltEngine ==
    LET docs == ProcessKnowledgeBase(<< "record" >>).documents
    IN  /\ knowledge_base = << "record" >>
        /\ embedding_model = TRUE
        /\ documents = docs
        /\ doc_metadata = [i \in 1..Len(docs) |-> "original"]
        /\ document_embeddings = Present(NormalizeAll(EncodeAll(docs)))
        /\ vector_store = Present(NormalizeAll(EncodeAll(docs)))
        /\ is_initialized = TRUE
        /\ documents_cache = Present(docs)
        /\ embeddings_cache = Present(EncodeAll(docs))
        /\ last_call = [op |-> "initialize", ok |-> TRUE, fail |-> "none",
                        docs_from |-> "corpus", emb_from |-> "computed"]
        /\ added_ok = {}
        /\ trail = [NoTrail EXCEPT
                        !.stage = "initialized",
                        !.snap = Snapshot(docs,
                                          Present(NormalizeAll(EncodeAll(docs))),
                                          Present(NormalizeAll(EncodeAll(docs))),
                                          Present(docs),
                                          Present(EncodeAll(docs)), TRUE)]

\* At most one thing goes wrong in one call.
AnswerInit ==
    /\ FreshEngine(<< "record" >>) \/ BuiltEngine
    /\ LoopIdle
    /\ LearnIdle
    /\ pc = "calling"
    /\ response = NoAnswer
    /\ \E results \in RankedLists,
          limit \in AnswerLimits, llm \in LlmOutcomes, fault \in AnswerFaults :
          /\ fault # "none" => llm = "ok"
          /\ query = [results |-> results, context_limit |-> limit,
                      context |-> 0, llm |-> llm, fault |-> fault]

GenerateAnswerCall ==
    /\ pc = "calling"
    /\ response' = GenerateAnswer(is_initialized, query)
    /\ pc' = "returned"
    /\ UNCHANGED << engine_vars, loop_vars, learn_vars, query >>

AnswerNext == GenerateAnswerCall

SpecAnswer == AnswerInit /\ [][AnswerNext]_vars

(***************************************************************************)
(* _calculate_confidence on its own, for result lists of any scores and a  *)
(* context of any length.                                                  *)
(***************************************************************************)
AnyScores == { -100, -50, 0, 50, 100 }

AnyContextLens == { 0, 1, 500, 1000, 2002 }

ConfidenceInit ==
    /\ FreshEngine(<< "record" >>)
    /\ LoopIdle
    /\ LearnIdle
    /\ pc = "calling"
    /\ response = NoAnswer
    /\ \E results \in ResultLists(AnyScores, {1}), len \in AnyContextLens :
          query = [NoQuery EXCEPT !.results = results, !.context = len]

CalculateConfidenceCall ==
    /\ pc = "calling"
    /\ response' = [NoAnswer EXCEPT
                        !.kind = "return",
                        !.confidence = CalculateConfidence(query.results,
                                                           query.context)]
    /\ pc' = "returned"
    /\ UNCHANGED << engine_vars, loop_vars, learn_vars, query >>

ConfidenceNext == CalculateConfidenceCall

SpecConfidence == ConfidenceInit /\ [][ConfidenceNext]_vars

(***************************************************************************)
(* The engine under the event loop.  All coroutines run on the one thread  *)
(* of the loop; a coroutine gives the thread up only at an await that      *)
(* really suspends.  initialize has one (run_in_executor, while the model  *)
(* loads); search, add_document and generate_answer have none, and         *)
(* generate_answer waits for the generation service inside requests.post,  *)
(* a blocking call, with the thread in its hand.                           *)
(***************************************************************************)
AnswerTopK == 10           \* top_k of the search generate_answer makes

LoopOps == { "search", "generate_answer", "add_document", "initialize" }

Mutations == { "add_document", "initialize" }

LoopLlmOutcomes == { "ok", "timeout" }

CallTexts(op) ==
    CASE op \in {"search", "generate_answer"} -> QueryTexts
      [] op = "add_document" -> AddedTexts
      [] op = "initialize" -> {0}

CurrentMemory ==
    Memory(embedding_model, vector_store, documents, document_embeddings,
           is_initialized)

\* The tasks suspended inside initialize.
InFlight == { t \in Tasks : tasks[t].pc = "loading_model" }

\* A variant of initialize that drops the old index before it loads the
\* model.
MemoryWithoutIndexAtAwait(mem) == [mem EXCEPT !.vector_store = Absent]

\* The engine's memory when initialize reaches its await: nothing has been
\* assigned yet.
MemoryAtAwait(mem) == mem

\* The outside services one search calls.
SearchCalls == IF is_initialized /\ embedding_model THEN {"embedding"} ELSE {}

\* The SearchResult objects of one search as their caller holds them: live
\* while the engine still holds the Document whose metadata dict the result
\* refers to; returned_metadata is what the dict held at the return.
Held(found) ==
    [i \in 1..Len(found) |->
        [content |-> found[i].content, score |-> found[i].score,
         pos |-> found[i].pos, live |-> TRUE,
         metadata |-> doc_metadata[found[i].pos],
         returned_metadata |-> doc_metadata[found[i].pos]]]

\* The search results as generate_answer uses them.
Measured(found) ==
    [i \in 1..Len(found) |->
        [content_len |-> TextLen(found[i].content), score |-> found[i].score]]

\* The caller schedules a coroutine.  One mutation at a time.
Call(t, op, text) ==
    /\ blocked = 0
    /\ tasks[t].pc = "idle"
    /\ op \in Mutations =>
          \A u \in Tasks : tasks[u].op \in Mutations => tasks[u].pc = "done"
    /\ tasks' = [tasks EXCEPT ![t] = [@ EXCEPT !.op = op, !.pc = "ready",
                                                !.text = text]]
    /\ UNCHANGED << engine_vars, answer_vars, blocked >>

RunSearch(t) ==
    /\ blocked = 0
    /\ tasks[t].pc = "ready"
    /\ tasks[t].op = "search"
    /\ LET found == Search(tasks[t].text, DefaultTopK, ScoreThreshold)
       IN  tasks' = [tasks EXCEPT ![t] =
                [@ EXCEPT !.pc = "done",
                          !.out = [NoOut EXCEPT
                                     !.results = Held(found),
                                     !.calls = SearchCalls,
                                     !.observed = CurrentMemory,
                                     !.in_flight = { tasks[u].pre : u \in InFlight }]]]
    /\ UNCHANGED << engine_vars, answer_vars, blocked >>

RunAddDocument(t, fail) ==
    /\ blocked = 0
    /\ tasks[t].pc = "ready"
    /\ tasks[t].op = "add_document"
    /\ AddDocument(tasks[t].text, fail)
    /\ tasks' = [tasks EXCEPT ![t] = [@ EXCEPT !.pc = "done",
                                                !.pre = CurrentMemory]]
    /\ UNCHANGED blocked

\* initialize from its call to the await of run_in_executor.
InitializeLoadModel(t) ==
    /\ blocked = 0
    /\ tasks[t].pc = "ready"
    /\ tasks[t].op = "initialize"
    /\ LET mem == MemoryAtAwait(CurrentMemory)
       IN  /\ embedding_model' = mem.embedding_model
           /\ vector_store' = mem.vector_store
           /\ documents' = mem.documents
           /\ document_embeddings' = mem.document_embeddings
           /\ is_initialized' = mem.is_initialized
    /\ tasks' = [tasks EXCEPT ![t] = [@ EXCEPT !.pc = "loading_model",
                                                !.pre = CurrentMemory]]
    /\ UNCHANGED << knowledge_base, doc_metadata, documents_cache,
                    embeddings_cache, last_call, added_ok, trail,
                    answer_vars, blocked >>

\* initialize from the end of the await to its return; the Documents of the
\* old list leave the engine when the list is loaded anew.
InitializeResume(t, fail) ==
    /\ blocked = 0
    /\ tasks[t].pc = "loading_model"
    /\ Initialize(fail)
    /\ LET reloaded == fail # "model" /\ LoadDocuments(fail).loaded
           detached(results) ==
               [i \in 1..Len(results) |-> [results[i] EXCEPT !.live = FALSE]]
       IN  tasks' = [u \in Tasks |->
                IF u = t THEN [tasks[u] EXCEPT !.pc = "done"]
                ELSE IF reloaded /\ tasks[u].op = "search"
                     THEN [tasks[u] EXCEPT !.out.results = detached(@)]
                     ELSE tasks[u]]
    /\ UNCHANGED blocked

\* generate_answer from its call into requests.post (or to its return, when
\* it returns before).
GenerateAnswerSend(t) ==
    /\ blocked = 0
    /\ tasks[t].pc = "ready"
    /\ tasks[t].op = "generate_answer"
    /\ LET found == Search(tasks[t].text, AnswerTopK, ScoreThreshold)
           q == [NoQuery EXCEPT !.results = Measured(found),
                                !.context_limit = DefaultContextLimit]
       IN  IF ~is_initialized \/ found = << >>
           THEN /\ tasks' = [tasks EXCEPT ![t] =
                     [@ EXCEPT !.pc = "done",
                               !.out = [NoOut EXCEPT
                                          !.response = GenerateAnswer(is_initialized, q),
                                          !.calls = SearchCalls,
                                          !.observed = CurrentMemory]]]
                /\ blocked' = 0
           ELSE /\ tasks' = [tasks EXCEPT ![t] =
                     [@ EXCEPT !.pc = "awaiting_llm",
                               !.out = [NoOut EXCEPT
                                          !.results = Measured(found),
                                          !.calls = SearchCalls \cup {"generation"},
                                          !.observed = CurrentMemory]]]
                /\ blocked' = t
    /\ UNCHANGED << engine_vars, answer_vars >>

\* requests.post returns or raises; generate_answer runs to its return.
GenerateAnswerReceive(t, llm) ==
    /\ blocked = t
    /\ tasks[t].pc = "awaiting_llm"
    /\ LET q == [NoQuery EXCEPT !.results = tasks[t].out.results,
                                !.context_limit = DefaultContextLimit,
                                !.llm = llm]
       IN  tasks' = [tasks EXCEPT ![t] =
                [@ EXCEPT !.pc = "done",
                          !.out.response = GenerateAnswer(TRUE, q)]]
    /\ blocked' = 0
    /\ UNCHANGED << engine_vars, answer_vars >>

\* The caller of a search writes into the metadata dict of the i-th result
\* it was handed.  SearchResult.metadata is doc.metadata itself: the write
\* lands in the Document and shows in every result that refers to it.
MutateResult(t, i) ==
    /\ blocked = 0
    /\ tasks[t].op = "search"
    /\ tasks[t].pc = "done"
    /\ i \in 1..Len(tasks[t].out.results)
    /\ tasks[t].out.results[i].metadata = "original"
    /\ LET r == tasks[t].out.results[i]
           same(u, j) ==
               \/ u = t /\ j = i
               \/ r.live /\ tasks[u].out.results[j].live
                         /\ tasks[u].out.results[j].pos = r.pos
           written(u) ==
               [j \in 1..Len(tasks[u].out.results) |->
                   IF same(u, j)
                   THEN [tasks[u].out.results[j] EXCEPT !.metadata = "changed"]
                   ELSE tasks[u].out.results[j]]
       IN  /\ doc_metadata' = IF r.live
                              THEN [doc_metadata EXCEPT ![r.pos] = "changed"]
                              ELSE doc_metadata
           /\ tasks' = [u \in Tasks |->
                  IF tasks[u].op = "search"
                  THEN [tasks[u] EXCEPT !.out.results = written(u)]
                  ELSE tasks[u]]
    /\ UNCHANGED << knowledge_base, embedding_model, vector_store, documents,
                    document_embeddings, is_initialized, documents_cache,
                    embeddings_cache, last_call, added_ok, trail,
                    answer_vars, blocked >>

LoopInit ==
    /\ FreshEngine(<< "record" >>) \/ BuiltEngine
    /\ LoopIdle
    /\ LearnIdle
    /\ pc = "idle"
    /\ query = NoQuery
    /\ response = NoAnswer

LoopNext ==
    \/ \E t \in Tasks, op \in LoopOps : \E text \in CallTexts(op) :
          Call(t, op, text) /\ UNCHANGED learn_vars
    \/ \E t \in Tasks : RunSearch(t) /\ UNCHANGED learn_vars
    \/ \E t \in Tasks, fail \in AddFailures :
          RunAddDocument(t, fail) /\ UNCHANGED learn_vars
    \/ \E t \in Tasks : InitializeLoadModel(t) /\ UNCHANGED learn_vars
    \/ \E t \in Tasks, fail \in InitFailures :
          InitializeResume(t, fail) /\ UNCHANGED learn_vars
    \/ \E t \in Tasks : GenerateAnswerSend(t) /\ UNCHANGED learn_vars
    \/ \E t \in Tasks, llm \in LoopLlmOutcomes :
          GenerateAnswerReceive(t, llm) /\ UNCHANGED learn_vars
    \/ \E t \in Tasks, i \in 1..MaxDocs :
          MutateResult(t, i) /\ UNCHANGED learn_vars

SpecLoop == LoopInit /\ [][LoopNext]_vars

(***************************************************************************)
(* Searches between additions: an initialized engine, an administrative    *)
(* flow that adds documents (any of the additions may fail) and a caller   *)
(* that searches with its own top_k and score_threshold.                   *)
(***************************************************************************)
\* What callers pass to search for top_k and score_threshold (hundredths).
TopKs == { 1, 2, DefaultTopK }

Thresholds == { -100, 0, ScoreThreshold, 100 }

\* Two different new texts.
SearchAddedTexts == { 3 * MaxRecords + 1, 3 * MaxRecords + 2 }

NoSearch == [text |-> 0, top_k |-> 0, score_threshold |-> 0]

SearchInit ==
    /\ BuiltEngine
    /\ LoopIdle
    /\ LearnIdle
    /\ pc = "idle"
    /\ query = NoSearch
    /\ response = << >>

SearchAddDocument(content, fail) ==
    /\ AddDocument(content, fail)
    /\ UNCHANGED << loop_vars, learn_vars >>

SearchCall(text, top_k, score_threshold) ==
    /\ query' = [text |-> text, top_k |-> top_k,
                 score_threshold |-> score_threshold]
    /\ response' = Search(text, top_k, score_threshold)
    /\ pc' = "searched"
    /\ UNCHANGED << engine_vars, loop_vars, learn_vars >>

SearchNext ==
    \/ \E content \in SearchAddedTexts, fail \in AddFailures :
          SearchAddDocument(content, fail)
    \/ \E text \in QueryTexts \cup SearchAddedTexts, top_k \in TopKs,
          th \in Thresholds : SearchCall(text, top_k, th)

SpecSearch == SearchInit /\ [][SearchNext]_vars

(***************************************************************************)
(* The learning database (src/app/database) and the answer checking of     *)
(* src/app/learning/questions.py.  A table is the sequence of its rows in  *)
(* insertion order.  The questions table is fixed: one lesson with         *)
(* MaxQuestions questions.                                                 *)
(***************************************************************************)
MaxQuestions == 2    \* questions of the lesson
MaxAnswers == 2      \* rows the table user_answers holds at the start

LessonId == 1        \* the lesson that has questions
EmptyLessonId == 2   \* a lesson without questions
MinSuccessPercentage == 80

QuestionIds == 1..MaxQuestions

MissingQuestion == MaxQuestions + 1

LearnUsers == { 1, 2 }

AnswerLetters == { "A", "B", "a" }

\* The stored correct_answer of a question.
CorrectAnswer(question_id) == IF question_id % 2 = 1 THEN "A" ELSE "B"

\* A column that was given no value.
Null == "NULL"

\* The engine idle: the learning functions do not touch it.
IdleEngine ==
    /\ FreshEngine(<< >>)
    /\ LoopIdle
    /\ pc = "idle"
    /\ query = NoQuery
    /\ response = NoAnswer

\* get_question_by_id: the row, or None.
GetQuestionById(question_id) ==
    IF question_id \in QuestionIds
    THEN [exists |-> TRUE, id |-> question_id, lesson_id |-> LessonId,
          correct_answer |-> CorrectAnswer(question_id)]
    ELSE [exists |-> FALSE, id |-> 0, lesson_id |-> 0, correct_answer |-> Null]

\* get_questions_by_lesson: the ids of the lesson's question rows.
GetQuestionsByLesson(lesson_id) ==
    IF lesson_id = LessonId THEN QuestionIds ELSE {}

\* The NOT NULL columns of user_answers that have no default.
UserAnswerNotNull(row) == row.answer # Null /\ row.user_answer # Null

\* db.add(row); db.commit() on user_answers: the row is inserted, or the
\* commit raises IntegrityError and the table stays as it was.
CommitUserAnswer(table, row) ==
    IF UserAnswerNotNull(row)
    THEN [raised |-> FALSE, table |-> Append(table, row)]
    ELSE [raised |-> TRUE, table |-> table]

\* save_user_answer: the row it builds sets user_answer and leaves the
\* column answer without a value.
SaveUserAnswer(table, user_id, question_id, user_answer, is_correct, lesson_id) ==
    CommitUserAnswer(table,
        [user_id |-> user_id, question_id |-> question_id,
         lesson_id |-> lesson_id, answer |-> Null,
         user_answer |-> user_answer, is_correct |-> is_correct])

\* check_answer: [result, table].  An exception of save_user_answer is
\* logged and does not change the result.
CheckAnswerResult(table, question_id, user_id, answer) ==
    LET question == GetQuestionById(question_id)
        is_correct == (answer = question.correct_answer)
        saved == SaveUserAnswer(table, user_id, question_id, answer,
                                is_correct, question.lesson_id)
    IN  IF ~question.exists
        THEN [result |-> FALSE, table |-> table]
        ELSE [result |-> is_correct, table |-> saved.table]

\* The rows of one user for one question.
Recorded(table, user_id, question_id) ==
    SelectSeq(table, LAMBDA r : r.user_id = user_id
                                  /\ r.question_id = question_id)

\* get_user_answers_for_lesson
GetUserAnswersForLesson(table, user_id, lesson_id) ==
    SelectSeq(table, LAMBDA r : r.user_id = user_id /\ r.lesson_id = lesson_id)

\* calculate_lesson_success_percentage, rounded down to a whole percent
\* (the comparison with the whole-number minimum is not affected).
CalculateLessonSuccessPercentage(table, user_id, lesson_id) ==
    LET answers == GetUserAnswersForLesson(table, user_id, lesson_id)
        questions == GetQuestionsByLesson(lesson_id)
        correct_count == Len(SelectSeq(answers, LAMBDA r : r.is_correct))
    IN  IF questions = {} \/ answers = << >> THEN 0
        ELSE (correct_count * 100) \div Cardinality(questions)

\* update_user_progress: the row of the user and lesson is updated or created.
UpdateUserProgress(progress, user_id, lesson_id, is_completed, success_percentage, questions_answered, correct_answers) ==
    { r \in progress : ~(r.user_id = user_id /\ r.lesson_id = lesson_id) }
        \cup { [user_id |-> user_id, lesson_id |-> lesson_id,
                is_completed |-> is_completed,
                success_percentage |-> success_percentage,
                questions_answered |-> questions_answered,
                correct_answers |-> correct_answers] }

NotCompleted == [is_completed |-> FALSE, success_percentage |-> 0,
                 is_successful |-> FALSE]

\* check_lesson_completion: the dict it returns.
CheckLessonCompletionResult(table, user_id, lesson_id) ==
    LET questions == GetQuestionsByLesson(lesson_id)
        answers == GetUserAnswersForLesson(table, user_id, lesson_id)
        success_percentage ==
            CalculateLessonSuccessPercentage(table, user_id, lesson_id)
    IN  IF questions = {} THEN NotCompleted
        ELSE IF Len(answers) < Cardinality(questions) THEN NotCompleted
        ELSE [is_completed |-> TRUE,
              success_percentage |-> success_percentage,
              is_successful |-> success_percentage >= MinSuccessPercentage]

\* The rows user_answers can hold: both answer columns set.
StoredLetters == { "A", "B" }

ValidAnswerRows ==
    { [user_id |-> u, question_id |-> q, lesson_id |-> LessonId,
       answer |-> l, user_answer |-> l, is_correct |-> (l = CorrectAnswer(q))] :
        u \in LearnUsers, q \in QuestionIds, l \in StoredLetters }

LearningInit ==
    /\ IdleEngine
    /\ users = << >>
    /\ user_answers \in UNION { [1..n -> ValidAnswerRows] : n \in 0..MaxAnswers }
    /\ user_progress = {}
    /\ active_sessions = << >>
    /\ current_test = NoTest
    /\ returned = NoReturn

CheckAnswer(question_id, user_id, answer) ==
    /\ LET r == CheckAnswerResult(user_answers, question_id, user_id, answer)
       IN  /\ user_answers' = r.table
           /\ returned' = [op |-> "check_answer", question_id |-> question_id,
                           user_id |-> user_id, answer |-> answer,
                           result |-> r.result,
                           before |-> Len(Recorded(user_answers, user_id,
                                                   question_id))]
    /\ UNCHANGED << engine_vars, answer_vars, loop_vars, users, user_progress,
                    active_sessions, current_test >>

\* check_lesson_completion; update_user_progress is given is_successful in
\* the place of is_completed.
CheckLessonCompletion(user_id, lesson_id) ==
    /\ LET r == CheckLessonCompletionResult(user_answers, user_id, lesson_id)
       IN  /\ returned' = [op |-> "check_lesson_completion",
                           user_id |-> user_id, lesson_id |-> lesson_id,
                           is_completed |-> r.is_completed,
                           success_percentage |-> r.success_percentage,
                           is_successful |-> r.is_successful]
           /\ user_progress' =
                 IF r.is_completed
                 THEN UpdateUserProgress(user_progress, user_id, lesson_id,
                                         r.is_successful, r.success_percentage,
                                         0, 0)
                 ELSE user_progress
    /\ UNCHANGED << engine_vars, answer_vars, loop_vars, users, user_answers,
                    active_sessions, current_test >>

LearningNext ==
    \/ \E question_id \in QuestionIds \cup {MissingQuestion},
          user_id \in LearnUsers, answer \in AnswerLetters :
          CheckAnswer(question_id, user_id, answer)
    \/ \E user_id \in LearnUsers, lesson_id \in {LessonId, EmptyLessonId} :
          CheckLessonCompletion(user_id, lesson_id)

SpecLearning == LearningInit /\ [][LearningNext]_vars

(***************************************************************************)
(* The table users and get_or_create_user (create_user is an alias of it,  *)
(* src/app/database/__init__.py).                                          *)
(***************************************************************************)
MaxUsers == 3        \* telegram accounts that write to the bot

TelegramIds == 1..MaxUsers

\* "" is None: no username given.
Usernames == { "", "u", "v" }

UserFailures == { "none", "commit" }

NoUser == [exists |-> FALSE, id |-> 0, telegram_id |-> 0, username |-> ""]

\* db.query(User).filter(User.telegram_id == telegram_id).first()
RECURSIVE FirstUser(_, _, _)
FirstUser(table, telegram_id, i) ==
    IF i > Len(table) THEN NoUser
    ELSE IF table[i].telegram_id = telegram_id
         THEN [exists |-> TRUE, id |-> table[i].id,
               telegram_id |-> telegram_id, username |-> table[i].username]
         ELSE FirstUser(table, telegram_id, i + 1)

\* get_user_by_telegram_id
GetUserByTelegramId(table, telegram_id) == FirstUser(table, telegram_id, 1)

\* db.add(user); db.commit(): the row gets the next id; a second row with
\* the same telegram_id is rejected (unique=True).
InsertUser(table, telegram_id, username) ==
    IF \E i \in 1..Len(table) : table[i].telegram_id = telegram_id
    THEN [raised |-> TRUE, table |-> table, id |-> 0]
    ELSE [raised |-> FALSE, id |-> Len(table) + 1,
          table |-> Append(table, [id |-> Len(table) + 1,
                                   telegram_id |-> telegram_id,
                                   username |-> username])]

\* A variant of get_or_create_user that creates the row without looking
\* the user up, on a table without the unique constraint.
GetOrCreateUserWithoutLookup(table, telegram_id, username, fail) ==
    IF fail = "commit"
    THEN [raised |-> TRUE, table |-> table, id |-> 0, existed |-> FALSE]
    ELSE [raised |-> FALSE, id |-> Len(table) + 1, existed |-> FALSE,
          table |-> Append(table, [id |-> Len(table) + 1,
                                   telegram_id |-> telegram_id,
                                   username |-> username])]

\* get_or_create_user: [raised, table, id, existed].  A commit that raises
\* is rolled back and re-raised.
GetOrCreateUserResult(table, telegram_id, username, fail) ==
    LET user == GetUserByTelegramId(table, telegram_id)
        updated == [i \in 1..Len(table) |->
                       IF table[i].id = user.id /\ username # ""
                       THEN [table[i] EXCEPT !.username = username]
                       ELSE table[i]]
        created == InsertUser(table, telegram_id, username)
    IN  IF fail = "commit"
        THEN [raised |-> TRUE, table |-> table, id |-> 0,
              existed |-> user.exists]
        ELSE IF user.exists
             THEN [raised |-> FALSE, table |-> updated, id |-> user.id,
                   existed |-> TRUE]
             ELSE [raised |-> created.raised, table |-> created.table,
                   id |-> created.id, existed |-> FALSE]

UsersInit ==
    /\ IdleEngine
    /\ LearnIdle

GetOrCreateUser(telegram_id, username, fail) ==
    /\ Len(users) <= MaxUsers
    /\ LET r == GetOrCreateUserResult(users, telegram_id, username, fail)
       IN  /\ users' = r.table
           /\ returned' = [op |-> "get_or_create_user",
                           telegram_id |-> telegram_id, raised |-> r.raised,
                           id |-> r.id, existed |-> r.existed,
                           found_before |-> GetUserByTelegramId(users, telegram_id),
                           ids_before |-> { users[i].id : i \in 1..Len(users) },
                           rows_before |-> Len(users)]
    /\ UNCHANGED << engine_vars, answer_vars, loop_vars, user_answers,
                    user_progress, active_sessions, current_test >>

UsersNext ==
    \E telegram_id \in TelegramIds, username \in Usernames,
       fail \in UserFailures : GetOrCreateUser(telegram_id, username, fail)

SpecUsers == UsersInit /\ [][UsersNext]_vars

(***************************************************************************)
(* EnhancedLearningSystem (src/app/core/enhanced_integration.py): the      *)
(* learning sessions it keeps in active_sessions, keyed by user id.  A     *)
(* session is [lesson_id, total, current_question_index, answers]: total   *)
(* is len(questions), answers the is_correct flag of each answer given.    *)
(***************************************************************************)
MaxSessionQuestions == 2   \* questions generated for one session

SessionAnswers == { "a", "B" }

\* What goes wrong while a session is completed.
CompleteFailures == { "none", "progress", "coordination" }

\* str.upper on an answer letter.
Upper(letter) ==
    CASE letter = "a" -> "A" [] letter = "b" -> "B" [] OTHER -> letter

NewSession(lesson_id, total) ==
    [lesson_id |-> lesson_id, total |-> total, current_question_index |-> 0,
     answers |-> << >>]

\* del self.active_sessions[user_id]
WithoutSession(sessions, user_id) ==
    [u \in DOMAIN sessions \ {user_id} |-> sessions[u]]

\* _complete_session, on active_sessions: an exception of
\* update_user_progress is caught by the except clause at the end, past the
\* deletion; an exception of the coordination is caught where it is raised.
SessionsAfterComplete(sessions, user_id, fail) ==
    IF fail = "progress" THEN sessions ELSE WithoutSession(sessions, user_id)

\* accuracy * 100 of _update_performance_metrics, in whole percent
Accuracy(answers) ==
    IF answers = << >> THEN 0
    ELSE (Len(SelectSeq(answers, LAMBDA a : a)) * 100) \div Len(answers)

NoStatus == [exists |-> FALSE, lesson_id |-> 0, current_question_index |-> 0,
             total_questions |-> 0]

\* get_session_status: None, or the dict of the session.
GetSessionStatus(sessions, user_id) ==
    IF user_id \notin DOMAIN sessions THEN NoStatus
    ELSE [exists |-> TRUE, lesson_id |-> sessions[user_id].lesson_id,
          current_question_index |-> sessions[user_id].current_question_index,
          total_questions |-> sessions[user_id].total]

SessionInit ==
    /\ IdleEngine
    /\ LearnIdle

\* start_learning_session: the new session replaces the one the user had.
StartLearningSession(user_id, total) ==
    /\ active_sessions' =
          [u \in DOMAIN active_sessions \cup {user_id} |->
              IF u = user_id THEN NewSession(LessonId, total)
              ELSE active_sessions[u]]
    /\ returned' = [op |-> "start_learning_session", user_id |-> user_id,
                    raised |-> FALSE, is_completed |-> FALSE]
    /\ UNCHANGED << engine_vars, answer_vars, loop_vars, users, user_answers,
                    user_progress, current_test >>

\* process_answer with everything it awaits, _complete_session included.
ProcessAnswer(user_id, answer, fail) ==
    LET exists == user_id \in DOMAIN active_sessions
        session == active_sessions[user_id]
        is_correct ==
            Upper(answer) = Upper(CorrectAnswer(session.current_question_index + 1))
        answered == [session EXCEPT
                        !.answers = Append(@, is_correct),
                        !.current_question_index = @ + 1]
        is_completed == answered.current_question_index >= answered.total
        kept == [active_sessions EXCEPT ![user_id] = answered]
    IN  IF ~exists \/ session.current_question_index >= session.total
        THEN /\ fail = "none"
             /\ returned' = [op |-> "process_answer", user_id |-> user_id,
                             raised |-> TRUE, is_completed |-> FALSE]
             /\ UNCHANGED << engine_vars, answer_vars, loop_vars, users,
                             user_answers, user_progress, active_sessions,
                             current_test >>
        ELSE /\ fail # "none" => is_completed
             /\ active_sessions' =
                   IF is_completed
                   THEN SessionsAfterComplete(kept, user_id, fail)
                   ELSE kept
             /\ user_progress' =
                   IF is_completed /\ fail # "progress"
                   THEN UpdateUserProgress(user_progress, user_id,
                            session.lesson_id, TRUE, Accuracy(answered.answers),
                            Len(answered.answers),
                            Len(SelectSeq(answered.answers, LAMBDA a : a)))
                   ELSE user_progress
             /\ returned' = [op |-> "process_answer", user_id |-> user_id,
                             raised |-> FALSE, is_completed |-> is_completed]
             /\ UNCHANGED << engine_vars, answer_vars, loop_vars, users,
                             user_answers, current_test >>

SessionNext ==
    \/ \E user_id \in LearnUsers, total \in 1..MaxSessionQuestions :
          StartLearningSession(user_id, total)
    \/ \E user_id \in LearnUsers, answer \in SessionAnswers,
          fail \in CompleteFailures : ProcessAnswer(user_id, answer, fail)

SpecSession == SessionInit /\ [][SessionNext]_vars

(***************************************************************************)
(* The quiz flow of the bot (src/app/bot/handlers.py): the callbacks of    *)
(* one chat, in any order; current_test is what the handlers keep in       *)
(* context.user_data between them.                                         *)
(***************************************************************************)
QuizUser == 1        \* the database id of the user of the chat

QuizFailures == { "none", "progress" }

QuizInit ==
    /\ IdleEngine
    /\ LearnIdle

\* start_lesson_test: a lesson without questions gets no test.
StartLessonTest(lesson_id) ==
    /\ current_test' =
          IF GetQuestionsByLesson(lesson_id) = {} THEN current_test
          ELSE [exists |-> TRUE, lesson_id |-> lesson_id,
                questions |-> [i \in 1..MaxQuestions |-> i],
                current_question_index |-> 0, correct_answers |-> 0,
                total_questions |-> MaxQuestions]
    /\ returned' = [op |-> "start_lesson_test", lesson_id |-> lesson_id]
    /\ UNCHANGED << engine_vars, answer_vars, loop_vars, users, user_answers,
                    user_progress, active_sessions >>

\* callback answer_<question_id>_<letter>: handle_answer_selection.  For a
\* question that does not exist the handler raises before it counts; with
\* no current_test the count goes into a dict that is thrown away.
HandleAnswerSelection(question_id, answer_letter) ==
    /\ current_test.correct_answers <= MaxQuestions
    /\ LET r == CheckAnswerResult(user_answers, question_id, QuizUser,
                                  answer_letter)
           question == GetQuestionById(question_id)
       IN  /\ user_answers' = r.table
           /\ current_test' =
                 IF question.exists /\ r.result /\ current_test.exists
                 THEN [current_test EXCEPT !.correct_answers = @ + 1]
                 ELSE current_test
           /\ returned' = [op |-> "answer", question_id |-> question_id,
                           answer_letter |-> answer_letter,
                           is_correct |-> r.result]
    /\ UNCHANGED << engine_vars, answer_vars, loop_vars, users, user_progress,
                    active_sessions >>

\* show_test_results: [raised, progress, test].  The test data is dropped
\* at the very end, after the progress was written.
ShowTestResults(test, progress, fail) ==
    LET success_percentage == (test.correct_answers * 100) \div test.total_questions
        is_successful ==
            test.correct_answers * 100 >= MinSuccessPercentage * test.total_questions
    IN  IF test.total_questions = 0
        THEN [raised |-> FALSE, progress |-> progress, test |-> test]
        ELSE IF fail = "progress"
             THEN [raised |-> TRUE, progress |-> progress, test |-> test]
             ELSE [raised |-> FALSE, test |-> NoTest,
                   progress |-> UpdateUserProgress(progress, QuizUser,
                                    test.lesson_id, is_successful,
                                    success_percentage, 0, 0)]

\* callback next_question: handle_next_question.
HandleNextQuestion(fail) ==
    LET next_index == current_test.current_question_index + 1
        shown == ShowTestResults(current_test, user_progress, fail)
        last == current_test.exists /\ next_index >= Len(current_test.questions)
    IN  /\ fail # "none" => last
        /\ current_test' =
              IF ~current_test.exists THEN current_test
              ELSE IF ~last
                   THEN [current_test EXCEPT !.current_question_index = next_index]
                   ELSE shown.test
        /\ user_progress' = IF last THEN shown.progress ELSE user_progress
        /\ returned' = [op |-> "next_question", results_shown |-> last,
                        raised |-> last /\ shown.raised]
        /\ UNCHANGED << engine_vars, answer_vars, loop_vars, users,
                        user_answers, active_sessions >>

\* callback retry_question_<id>: the question is sent again.
RetryQuestion(question_id) ==
    /\ returned' = [op |-> "retry_question", question_id |-> question_id]
    /\ UNCHANGED << engine_vars, answer_vars, loop_vars, users, user_answers,
                    user_progress, active_sessions, current_test >>

QuizNext ==
    \/ \E lesson_id \in {LessonId, EmptyLessonId} : StartLessonTest(lesson_id)
    \/ \E question_id \in QuestionIds \cup {MissingQuestion},
          answer_letter \in StoredLetters :
          HandleAnswerSelection(question_id, answer_letter)
    \/ \E fail \in QuizFailures : HandleNextQuestion(fail)
    \/ \E question_id \in QuestionIds : RetryQuestion(question_id)

SpecQuiz == QuizInit /\ [][QuizNext]_vars

(***************************************************************************)
(* Properties of the engine's index and caches (under Spec).               *)
(***************************************************************************)
LastSucceeded(op) == last_call.op = op /\ last_call.ok

\* Every position of the index holds the normalized vector of the document
\* at the same position of the document list, and there is no other position.
Aligned == /\ vector_store.exists
           /\ vector_store.items = NormalizeAll(EncodeAll(documents))

\* C1: whenever the last initialize or add_document succeeded, the vector
\* index holds exactly as many vectors as the document list holds documents.
C1_IndexSizeEqualsDocumentCount ==
    (LastSucceeded("initialize") \/ LastSucceeded("add_document"))
        => /\ vector_store.exists
           /\ Len(vector_store.items) = Len(documents)

\* C2: a successful initialize that took the vectors from the embeddings
\* cache also took the documents from the document cache: the embeddings
\* cache is never trusted on its own.
C2_EmbeddingCacheTrustedOnlyWithDocumentCache ==
    (LastSucceeded("initialize") /\ last_call.emb_from = "cache")
        => last_call.docs_from = "cache"

\* C3: after add_document(D) returned True, every later successful
\* initialize on the cache files it left yields a document list that
\* contains D and an index that contains D's vector.
C3_AddedDocumentSurvivesInitialize ==
    LastSucceeded("initialize")
        => \A d \in added_ok :
               /\ d \in Range(documents)
               /\ NormalizeL2(Encode(d)) \in Range(vector_store.items)

\* The state search may consult is complete: the model is loaded and the
\* index is the one built from the current document list.
Complete == embedding_model /\ Aligned

\* C4: a queryable state (is_initialized) is always a complete one; in
\* particular an initialize that fails part-way on an engine whose queryable
\* state was complete leaves a state that is complete or not queryable,
\* never a partially rebuilt one that search consults.
C4_FailedInitializeLeavesNoPartialState ==
    [][ ( /\ is_initialized
          /\ Complete
          /\ last_call'.op = "initialize"
          /\ ~last_call'.ok )
        => (is_initialized' => Complete') ]_vars

(***************************************************************************)
(* Properties of generate_answer (under SpecAnswer).                       *)
(***************************************************************************)
Returned == pc = "returned"

\* The call got as far as packing the context and calling the LLM.
Generated ==
    /\ Returned
    /\ is_initialized
    /\ query.fault = "none"
    /\ query.results # << >>

PrefixLen(results, k) == SumSeq(ContentLens(SubSeq(results, 1, k)))

\* C5: when retrieval returned results and the Generation Client call
\* fails, the response has confidence 0.0, a non-empty sources list and an
\* answer text saying that generation failed.
C5_GenerationFailureIsDegraded ==
    (Generated /\ query.llm # "ok")
        => /\ response.confidence = 0
           /\ response.sources # << >>
           /\ response.answer \in {"LLM_UNAVAILABLE", "LLM_ERROR"}

\* C6: the context string generate_answer assembles is never longer than
\* the budget context_limit.
C6_ContextWithinBudget ==
    Returned => response.context_len <= query.context_limit

\* C7: the sources of the response are exactly the longest prefix of the
\* ranked results whose contents fit the budget: a prefix, fitting, and not
\* extensible by the next result; three results of length 400 under a budget
\* of 900 give two sources.
C7_SourcesAreLongestFittingPrefix ==
    Generated
        => LET k == Len(response.sources)
               n == Len(query.results)
           IN  /\ k <= n
               /\ response.sources = SubSeq(query.results, 1, k)
               /\ PrefixLen(query.results, k) <= query.context_limit
               /\ k < n => PrefixLen(query.results, k + 1) > query.context_limit
               /\ (ContentLens(query.results) = << 400, 400, 400 >>
                   /\ query.context_limit = 900) => k = 2

\* C7 happens: a result that does not fit ends the packing although a
\* later, shorter one would still fit.
C7_Witness ==
    /\ Generated
    /\ ContentLens(query.results) = << 400, 1000, 1 >>
    /\ query.context_limit = 900
    /\ Len(response.sources) = 1

AnswerTexts == { "NOT_INITIALIZED", "NO_INFORMATION", "ANSWER_ERROR",
                 "GENERATED", "", "LLM_UNAVAILABLE", "LLM_ERROR" }

\* C8: whatever fails, the caller of generate_answer gets a RAGResponse with
\* an answer text, a list of sources taken from the results, a confidence
\* and a context; never an exception.
C8_AlwaysReturnsResponse ==
    Returned
        => /\ response.kind = "return"
           /\ response.answer \in AnswerTexts
           /\ Range(response.sources) \subseteq Range(query.results)
           /\ response.confidence \in 0..ConfDen
           /\ response.context_used = ContentLens(response.sources)

\* C8 happens: an exception inside the try block became an error response.
C8_Witness ==
    /\ Returned
    /\ is_initialized
    /\ query.fault = "assemble"
    /\ query.results # << >>
    /\ response.kind = "return"
    /\ response.answer = "ANSWER_ERROR"

\* C9: for any result list and any context, the confidence
\* _calculate_confidence returns lies in [0.0, 1.0].
C9_ConfidenceInUnitInterval ==
    Returned => 0 <= response.confidence /\ response.confidence <= ConfDen

\* The scores of the up-to-three top-ranked results of the call.
TopThree == Scores(SubSeq(query.results, 1, Min(3, Len(query.results))))

\* Result lists to compare a response against (only the scores matter).
OtherResults == { r \in ResultLists(AnswerScores, {1}) : Len(r) \in 1..3 }

OtherContextLens == { 0, 400, 1000, 2002 }

\* mean(a) <= mean(b), for non-empty score sequences
MeanLeq(a, b) == SumSeq(a) * Len(b) <= SumSeq(b) * Len(a)

\* C10: on a successful generation the confidence is
\* 0.7 * mean(top three scores) + 0.3 * min(len(context) / 1000, 1), at most
\* 1, with len(context) the length of the joined context string; a result
\* list of no smaller mean score with a context no shorter never gets a
\* smaller confidence; scores 0.9, 0.8, 0.7 and a context of 1000 characters
\* give 0.86.
C10_ConfidenceFormula ==
    (Generated /\ query.llm = "ok")
        => LET n == Len(TopThree)
               len == JoinedLength(response.context_used)
               \* 0.7 * sum / (100 n) + 0.3 * min(len, 1000) / 1000,
               \* over the denominator 1000000 n
               exact == 7000 * SumSeq(TopThree) + 300 * n * Min(len, 1000)
           IN  /\ response.context_len = len
               /\ response.confidence >= 0
               \* confidence / ConfDen = min(exact / (1000000 n), 1), with
               \* both sides multiplied by 50 n * ConfDen = 3000000 n
               /\ ConfDen = 60000
               /\ response.confidence * 50 * n = 3 * Min(exact, 1000000 * n)
               /\ \A r \in OtherResults, l \in OtherContextLens :
                      /\ (MeanLeq(TopThree, Scores(r)) /\ len <= l)
                             => response.confidence <= CalculateConfidence(r, l)
                      /\ (MeanLeq(Scores(r), TopThree) /\ l <= len)
                             => CalculateConfidence(r, l) <= response.confidence
               /\ (TopThree = << 90, 80, 70 >> /\ len = 1000)
                      => response.confidence * 100 = 86 * ConfDen

\* C10 happens: the example of the claim, with a fourth result that the
\* mean leaves out.
C10_Witness ==
    /\ Generated
    /\ query.llm = "ok"
    /\ Len(query.results) = 4
    /\ TopThree = << 90, 80, 70 >>
    /\ response.context_len = 1000
    /\ response.confidence * 100 = 86 * ConfDen

(***************************************************************************)
(* Cache files that cannot be read, corpus lines that cannot be parsed,    *)
(* and the length of the stored documents.                                 *)
(***************************************************************************)
\* The last call was an initialize whose step `fail` raised.
InitializeFailedAt(fail) ==
    last_call.op = "initialize" /\ last_call.fail = fail

\* C11: a cache file that exists but cannot be read (json.load or np.load
\* raises on it) is treated as a cache miss: initialize recomputes and
\* reports success; it never reports failure because of the unreadable file.
\* The corpus can be ingested: no line raises, some line is a record.
Ingestible(kb) ==
    /\ \A i \in 1..Len(kb) : kb[i] # "no_prompt"
    /\ \E i \in 1..Len(kb) : kb[i] = "record"

C11_CorruptCacheIsCacheMiss ==
    ( /\ Ingestible(knowledge_base)
      /\ \/ InitializeFailedAt("documents_read")
         \/ InitializeFailedAt("embeddings_read") )
        => last_call.ok

\* The documents of the well-formed records of kb from line line_num on.
RECURSIVE WellFormedDocuments(_, _)
WellFormedDocuments(kb, line_num) ==
    IF line_num > Len(kb) THEN << >>
    ELSE (IF kb[line_num] = "record" THEN DeriveDocuments(line_num) ELSE << >>)
         \o WellFormedDocuments(kb, line_num + 1)

\* C12: a line of the corpus that cannot be parsed into a record never makes
\* ingestion or initialize fail: when nothing else goes wrong, an initialize
\* that reads a corpus with at least one well-formed record succeeds and
\* holds the documents of every well-formed record, before and after the
\* malformed ones.
C12_MalformedRecordIsSkipped ==
    ( /\ InitializeFailedAt("none")
      /\ last_call.docs_from = "corpus"
      /\ \E i \in 1..Len(knowledge_base) : knowledge_base[i] = "record" )
        => /\ last_call.ok
           /\ documents = WellFormedDocuments(knowledge_base, 1)

ChunkSize == 512

\* C13: every document of the document list, ingested from the corpus or
\* added by add_document, has a content of at most ChunkSize characters
\* (stated for the lists a successful initialize or add_document leaves).
C13_DocumentWithinChunkSize ==
    last_call.ok
        => \A i \in 1..Len(documents) : TextLen(documents[i]) <= ChunkSize

(***************************************************************************)
(* Rebuilding and re-running initialize.                                   *)
(***************************************************************************)
\* Every search gives on the engine what it gave on the snapshot.
SameSearches(snapshot) ==
    \A text \in QueryTexts, top_k \in {1, DefaultTopK},
       score_threshold \in {ScoreThreshold, -100} :
        Search(text, top_k, score_threshold)
            = SearchOn(TRUE, TRUE, snapshot.vector_store, snapshot.documents,
                       text, top_k, score_threshold)

CachesUnchanged ==
    /\ trail.before.exists
    /\ trail.before.documents_cache = documents_cache
    /\ trail.before.embeddings_cache = embeddings_cache

\* C15: an initialize that succeeds on the cache files the previous
\* successful initialize left leaves the document list, the stored vectors
\* and the index that one left, and every search gives the same results.
C15_InitializeIdempotent ==
    (LastSucceeded("initialize") /\ CachesUnchanged)
        => /\ documents = trail.before.documents
           /\ document_embeddings = trail.before.document_embeddings
           /\ vector_store = trail.before.vector_store
           /\ SameSearches(trail.before)

C15_Witness ==
    /\ LastSucceeded("initialize")
    /\ CachesUnchanged
    /\ last_call.docs_from = "cache"
    /\ last_call.emb_from = "cache"
    /\ Search(1, DefaultTopK, ScoreThreshold) # << >>

\* C16: when the embedding provider cannot be loaded, initialize reports
\* failure and the instance answers no query afterwards, also when it had
\* been initialized before: search returns the empty list and
\* generate_answer the not-initialized response.
C16_ModelLoadFailureIsFatal ==
    InitializeFailedAt("model")
        => /\ ~last_call.ok
           /\ \A text \in QueryTexts :
                 Search(text, DefaultTopK, ScoreThreshold) = << >>
           /\ GenerateAnswer(is_initialized, NoQuery).answer = "NOT_INITIALIZED"

(***************************************************************************)
(* Calls that run side by side, and what callers hold.                     *)
(***************************************************************************)
Finished(u, op) == tasks[u].op = op /\ tasks[u].pc = "done"

\* C17: while one generate_answer waits for the generation service, every
\* other search or generate_answer that is ready to run can take its step.
C17_QueriesProgressDuringGeneration ==
    \A t \in Tasks, u \in Tasks :
        ( /\ tasks[t].pc = "awaiting_llm"
          /\ tasks[u].pc = "ready"
          /\ tasks[u].op \in {"search", "generate_answer"} )
            => ENABLED (RunSearch(u) \/ GenerateAnswerSend(u))

\* The SearchResult list without what the caller's side adds to it.
Plain(results) ==
    [i \in 1..Len(results) |->
        [content |-> results[i].content, score |-> results[i].score,
         pos |-> results[i].pos]]

C19_ResultsAreCopies ==
    /\ \A i \in 1..Len(doc_metadata) : doc_metadata[i] = "original"
    /\ \A u \in Tasks :
          Finished(u, "search") =>
              \A i \in 1..Len(tasks[u].out.results) :
                  tasks[u].out.results[i].returned_metadata = "original"

\* C20: a call on an engine that is not initialized calls no outside
\* service; search returns the empty list and generate_answer the fixed
\* not-initialized response with confidence 0, no sources, no context.
C20_NotInitializedAnswersNothing ==
    \A u \in Tasks :
        (tasks[u].pc = "done" /\ ~tasks[u].out.observed.is_initialized)
            => /\ Finished(u, "search") =>
                     tasks[u].out.results = << >> /\ tasks[u].out.calls = {}
               /\ Finished(u, "generate_answer") =>
                     /\ tasks[u].out.calls = {}
                     /\ tasks[u].out.response
                           = RAGResponse("NOT_INITIALIZED", << >>, 0, << >>, 0)

C20_Witness ==
    \E u \in Tasks :
        /\ Finished(u, "generate_answer")
        /\ ~tasks[u].out.observed.is_initialized
        /\ tasks[u].out.observed.embedding_model
        /\ tasks[u].out.response.kind = "return"

(***************************************************************************)
(* What generate_answer and search hand back (under SpecLoop).             *)
(***************************************************************************)
\* No vector of the index scores at or above the threshold for the text.
NoMatch(mem, text, score_threshold) ==
    /\ mem.vector_store.exists
    /\ \A i \in 1..Len(mem.vector_store.items) :
          InnerProduct(NormalizeL2(Encode(text)), mem.vector_store.items[i])
              < score_threshold

\* C21: on an initialized engine, a generate_answer whose query no document
\* matches at or above the threshold returns the fixed no-information answer
\* with confidence 0, no sources and no context, and does not call the
\* generation service.
C21_NoMatchAnswersNoInformation ==
    \A u \in Tasks :
        ( /\ Finished(u, "generate_answer")
          /\ tasks[u].out.observed.is_initialized
          /\ NoMatch(tasks[u].out.observed, tasks[u].text, ScoreThreshold) )
            => /\ tasks[u].out.response
                     = RAGResponse("NO_INFORMATION", << >>, 0, << >>, 0)
               /\ "generation" \notin tasks[u].out.calls

C21_Witness ==
    \E u \in Tasks :
        /\ Finished(u, "generate_answer")
        /\ tasks[u].out.observed.is_initialized
        /\ tasks[u].out.observed.vector_store.items # << >>
        /\ NoMatch(tasks[u].out.observed, tasks[u].text, ScoreThreshold)
        /\ "embedding" \in tasks[u].out.calls

\* The score a text has for the query: the inner product of the two
\* normalized embeddings.
ScoreOf(query_text, text) ==
    InnerProduct(NormalizeL2(Encode(query_text)), NormalizeL2(Encode(text)))

C23_AddedDocumentIsFound ==
    [][ ( /\ pc' = "searched"
          /\ UNCHANGED engine_vars
          /\ is_initialized
          /\ query'.text \in added_ok
          /\ query'.top_k >= Len(vector_store.items)
          /\ query'.score_threshold <= ScoreOf(query'.text, query'.text) )
            => \E i \in 1..Len(response') :
                  response'[i].content = query'.text ]_vars

(***************************************************************************)
(* An oversized top result (under SpecAnswer) and a failed addition        *)
(* (under Spec).                                                           *)
(***************************************************************************)
\* C24: when the top-ranked result alone is longer than the budget, the
\* context and the used sources are empty and generate_answer hands back no
\* generated answer with a confidence above 0.
C24_OversizedTopResultIsNoContext ==
    ( /\ pc = "returned"
      /\ is_initialized
      /\ query.fault = "none"
      /\ query.results # << >>
      /\ Head(query.results).content_len > query.context_limit )
        => /\ response.context_used = << >>
           /\ response.sources = << >>
           /\ ~(response.answer = "GENERATED" /\ response.confidence > 0)

\* C27: an add_document that returns False leaves the document list, the
\* index and the embeddings cache file as they were before the call.
C27_FailedAddLeavesStateUnchanged ==
    [][ ( /\ \E content \in AddedTexts, fail \in AddFailures :
                AddDocument(content, fail)
          /\ ~last_call'.ok )
            => /\ documents' = documents
               /\ vector_store' = vector_store
               /\ embeddings_cache' = embeddings_cache ]_vars

(***************************************************************************)
(* Answer checking and lesson completion (under SpecLearning).             *)
(***************************************************************************)
\* C25: check_answer returns True exactly when the answer is string-equal
\* to the stored correct_answer of an existing question, and every call for
\* an existing question records exactly one answer row for that user and
\* question, with the same correctness flag.
C25_CheckAnswerComparesAndRecords ==
    returned.op = "check_answer" =>
        LET question == GetQuestionById(returned.question_id)
            rows == Recorded(user_answers, returned.user_id,
                             returned.question_id)
        IN  /\ returned.result = ( /\ question.exists
                                   /\ returned.answer = question.correct_answer )
            /\ question.exists =>
                  /\ Len(rows) = returned.before + 1
                  /\ rows[Len(rows)].user_answer = returned.answer
                  /\ rows[Len(rows)].is_correct = returned.result

C26_OneUserPerTelegramId ==
    /\ \A i \in 1..Len(users), j \in 1..Len(users) :
          users[i].telegram_id = users[j].telegram_id => i = j
    /\ (returned.op = "get_or_create_user" /\ ~returned.raised) =>
          LET found == GetUserByTelegramId(users, returned.telegram_id)
          IN  /\ found.exists
              /\ found.id = returned.id
              /\ returned.found_before.exists =>
                    /\ returned.existed
                    /\ returned.id = returned.found_before.id
                    /\ Len(users) = returned.rows_before
              /\ ~returned.found_before.exists =>
                    /\ returned.id \notin returned.ids_before
                    /\ Len(users) = returned.rows_before + 1

C26_Witness ==
    /\ returned.op = "get_or_create_user"
    /\ ~returned.raised
    /\ returned.existed
    /\ Len(users) >= 2
    /\ GetUserByTelegramId(users, returned.telegram_id).username
          # returned.found_before.username

(***************************************************************************)
(* Learning sessions (under SpecSession).                                  *)
(***************************************************************************)
\* C28: once process_answer has returned is_completed = true for a user,
\* the user has no session in active_sessions and get_session_status
\* returns None, whether or not the progress was persisted.
C28_CompletedSessionIsRemoved ==
    ( /\ returned.op = "process_answer"
      /\ ~returned.raised
      /\ returned.is_completed )
        => /\ returned.user_id \notin DOMAIN active_sessions
           /\ ~GetSessionStatus(active_sessions, returned.user_id).exists

(***************************************************************************)
(* The quiz flow (under SpecQuiz).                                         *)
(***************************************************************************)
\* C29: whatever callbacks arrive after start_lesson_test, the count of
\* correct answers never exceeds the number of questions, and the success
\* percentage that show_test_results stores is at most 100.
C29_CorrectAnswersWithinTotal ==
    /\ current_test.exists =>
          current_test.correct_answers <= current_test.total_questions
    /\ \A r \in user_progress : r.success_percentage <= 100

====
